---- MODULE Spec2Model ----
(***************************************************************************)
(* Model of the CloudConnection component                                  *)
(* (mobile/src/components/misc/CloudConnection.tsx): the delayed reveal of *)
(* the cloud connection indicator.                                         *)
(*                                                                         *)
(* Time is in milliseconds.  The store status, the React state cells, the  *)
(* two refs and the host's set of live timers are the state.  The effect   *)
(* (cleanup of the previous run followed by the body) is one step, the     *)
(* setTimeout callback is one step; both run on one event loop, so they    *)
(* never interleave.  State setters are modelled as taking effect in the   *)
(* step that calls them.                                                   *)
(***************************************************************************)
EXTENDS Integers, FiniteSets, Sequences, TLC

\* ---- WebSocketStatus ---------------------------------------------------
CONNECTED == "connected"
CONNECTING == "connecting"
ERROR == "error"
DISCONNECTED == "disconnected"
WebSocketStatus == {CONNECTED, CONNECTING, ERROR, DISCONNECTED}

\* ---- program constants --------------------------------------------------
DISCONNECTION_DELAY == 5000

\* null of firstDisconnectedTimeRef (a time is never negative)
NoTime == -1
\* null of disconnectionTimerRef (handles are positive)
NoTimer == 0

\* ---- bounds of the exploration -------------------------------------------
MaxTime == 12000
MaxChanges == 4
\* the amounts by which the clock advances between events
Steps == {500, 1000, 2000}

VARIABLES
  status,                    \* useConnectionStore.getState().status (live)
  phase,                     \* "rendered" (mounted, effect not yet run), "mounted", "unmounted"
  connectionStatus,          \* the status the effect last ran with
  depHide,                   \* hideCloudConnection the effect last ran with
  hideCloudConnection,
  delayedStatus,
  disconnectionTimerRef,
  firstDisconnectedTimeRef,
  timers,                    \* the host's live timers: [id, deadline, status]
  now,                       \* Date.now()
  refreshCount,              \* number of refreshApplets() calls so far
  op,                        \* kind of the step that led here
  changes,                   \* store changes so far
  transitions,               \* history: observed entries into CONNECTED / DISCONNECTED
  connectedSeen,             \* history: CONNECTED read since the last non-connected effect run
  cancelledDeadline,         \* history: deadline of the timer the last CONNECTED run cancelled
  delayedWritten,            \* history: setDelayedStatus has been called since mount
  scenario                   \* history: position in ScenarioScript, 0 once off it

vars == <<status, phase, connectionStatus, depHide, hideCloudConnection,
          delayedStatus, disconnectionTimerRef, firstDisconnectedTimeRef,
          timers, now, refreshCount, op, changes, transitions, connectedSeen,
          cancelledDeadline, delayedWritten, scenario>>

\* ---- host timer primitives -------------------------------------------------
\* a handle no live timer uses
NewHandle(ts) ==
  CHOOSE i \in 1..(Cardinality(ts) + 1) : \A t \in ts : t.id # i

clearTimeoutLeak(ts, handle) == ts

\* clearTimeout(handle): the timer with that handle will not fire
clearTimeout(ts, handle) == {t \in ts : t.id # handle}

\* setTimeout(cb, delay) at time `at`: a live timer due at at + delay, whose
\* callback closes over the connectionStatus of the run that scheduled it
setTimeout(ts, handle, at, delay, cs) ==
  ts \cup {[id |-> handle, deadline |-> at + delay, status |-> cs]}

\* ---- pieces of the effect and of the callback ------------------------------
ClearPendingSkip(ref, ts) == [ref |-> ref, timers |-> ts]

\* if (disconnectionTimerRef.current) { clearTimeout(..); ..current = null }
ClearPending(ref, ts) ==
  IF ref # NoTimer
    THEN [ref |-> NoTimer, timers |-> clearTimeout(ts, ref)]
    ELSE [ref |-> ref, timers |-> ts]

FirstDisconnectedTimeNever(first, t) == first

FirstDisconnectedTimeAlways(first, t) == t

\* firstDisconnectedTimeRef.current after lines 95-98
FirstDisconnectedTime(first, t) == IF first = NoTime THEN t ELSE first

timeSinceLeftConnectedEpoch(first, t) == t - 0

\* timeSinceLeftConnected = Date.now() - (firstDisconnectedTimeRef.current || 0)
timeSinceLeftConnected(first, t) == t - (IF first = NoTime \/ first = 0 THEN 0 ELSE first)

remainingDelayRestart(since) == DISCONNECTION_DELAY

\* remainingDelay = DISCONNECTION_DELAY - timeSinceLeftConnected
remainingDelay(since) == DISCONNECTION_DELAY - since

ShouldRefreshAll(s) == TRUE

\* connectionStatus === CONNECTED || connectionStatus === DISCONNECTED
ShouldRefresh(s) == s = CONNECTED \/ s = DISCONNECTED

OutLongEnoughStrict(since) == since > DISCONNECTION_DELAY

\* timeSinceLeftConnected >= DISCONNECTION_DELAY
OutLongEnough(since) == since >= DISCONNECTION_DELAY

DelayedStatusOnConnectKept(cs, old) == old

\* setDelayedStatus(connectionStatus) of the CONNECTED branch
DelayedStatusOnConnect(cs, old) == cs

RevealsOnFireAlways(currentStatus) == TRUE

\* if (currentStatus !== WebSocketStatus.CONNECTED)
RevealsOnFire(currentStatus) == currentStatus # CONNECTED

CallbackStatusCaptured(t, live) == t.status

\* const currentStatus = useConnectionStore.getState().status
CallbackStatus(t, live) == live

\* shouldDisplay: the component renders null while hideCloudConnection
shouldDisplay == ~hideCloudConnection

\* ---- the scenario [Connected@0, Disconnected@0, Error@1000, Connected@1500] ----
\* the statuses the store publishes after a mount with CONNECTED, and when
ScenarioScript ==
  << [status |-> DISCONNECTED, at |-> 0],
     [status |-> ERROR, at |-> 1000],
     [status |-> CONNECTED, at |-> 1500] >>

TypeOK ==
  /\ status \in WebSocketStatus
  /\ phase \in {"rendered", "mounted", "unmounted"}
  /\ connectionStatus \in WebSocketStatus
  /\ depHide \in BOOLEAN
  /\ hideCloudConnection \in BOOLEAN
  /\ delayedStatus \in WebSocketStatus
  /\ disconnectionTimerRef \in Nat
  /\ firstDisconnectedTimeRef \in {NoTime} \cup 0..MaxTime
  /\ \A t \in timers : t.id \in Nat \ {0} /\ t.deadline \in Nat /\ t.status \in WebSocketStatus
  /\ now \in 0..MaxTime
  /\ refreshCount \in Nat
  /\ changes \in 0..MaxChanges
  /\ delayedWritten \in BOOLEAN
  /\ scenario \in 0..(Len(ScenarioScript) + 1)

\* ---- initial state: the first render (lines 16-25) --------------------------
Init ==
  /\ status \in WebSocketStatus
  /\ phase = "rendered"
  /\ connectionStatus = status
  /\ depHide = TRUE
  /\ hideCloudConnection = TRUE
  /\ delayedStatus = status
  /\ disconnectionTimerRef = NoTimer
  /\ firstDisconnectedTimeRef = NoTime
  /\ timers = {}
  /\ now = 0
  /\ refreshCount = 0
  /\ op = "mount"
  /\ changes = 0
  /\ transitions = 0
  /\ connectedSeen = FALSE
  /\ cancelledDeadline = NoTime
  /\ delayedWritten = FALSE
  /\ scenario = IF status = CONNECTED THEN 1 ELSE 0

\* the effect has to run: first run after mount, or a dependency changed
EffectPending ==
  \/ phase = "rendered"
  \/ /\ phase = "mounted"
     /\ <<status, hideCloudConnection>> # <<connectionStatus, depHide>>

TimerDue == \E t \in timers : t.deadline <= now

\* position in the scenario after the store publishes s: the next position when
\* s is the scripted status at the scripted time and the previous status has
\* been processed, 0 otherwise
ScenarioNext(s) ==
  IF /\ scenario \in 1..Len(ScenarioScript)
     /\ phase = "mounted"
     /\ ~EffectPending
     /\ s = ScenarioScript[scenario].status
     /\ now = ScenarioScript[scenario].at
    THEN scenario + 1
    ELSE 0

\* ---- the effect (lines 80-132) ------------------------------------------------
\* One run of the effect for the freshly rendered connectionStatus: the cleanup
\* returned by the previous run (lines 126-131), then the body (lines 81-123).
Effect ==
  /\ EffectPending
  /\ LET cs == status
         \* cleanup of the previous run, if there was one
         c0 == IF phase = "mounted"
                 THEN ClearPending(disconnectionTimerRef, timers)
                 ELSE [ref |-> disconnectionTimerRef, timers |-> timers]
         \* lines 83-86
         c1 == ClearPending(c0.ref, c0.timers)
         first == FirstDisconnectedTime(firstDisconnectedTimeRef, now)
         since == timeSinceLeftConnected(first, now)
         handle == NewHandle(c1.timers)
         isTransition == phase = "rendered" \/ cs # connectionStatus
         cancelled == {t \in timers : t.id = disconnectionTimerRef}
     IN
       /\ IF cs = CONNECTED
            THEN /\ firstDisconnectedTimeRef' = NoTime
                 /\ delayedStatus' = DelayedStatusOnConnect(cs, delayedStatus)
                 /\ delayedWritten' = TRUE
                 /\ hideCloudConnection' = TRUE
                 /\ disconnectionTimerRef' = c1.ref
                 /\ timers' = c1.timers
                 /\ connectedSeen' = TRUE
                 /\ cancelledDeadline' =
                      IF cancelled = {} THEN NoTime
                      ELSE (CHOOSE t \in cancelled : TRUE).deadline
            ELSE /\ firstDisconnectedTimeRef' = first
                 /\ connectedSeen' = FALSE
                 /\ cancelledDeadline' = NoTime
                 /\ IF OutLongEnough(since)
                      THEN /\ delayedStatus' = cs
                           /\ delayedWritten' = TRUE
                           /\ hideCloudConnection' = FALSE
                           /\ disconnectionTimerRef' = c1.ref
                           /\ timers' = c1.timers
                      ELSE /\ disconnectionTimerRef' = handle
                           /\ timers' = setTimeout(c1.timers, handle, now, remainingDelay(since), cs)
                           /\ UNCHANGED <<delayedStatus, hideCloudConnection, delayedWritten>>
       /\ refreshCount' = IF ShouldRefresh(cs) THEN refreshCount + 1 ELSE refreshCount
       /\ transitions' = IF isTransition /\ cs \in {CONNECTED, DISCONNECTED}
                           THEN transitions + 1 ELSE transitions
       /\ connectionStatus' = cs
       /\ depHide' = hideCloudConnection
  /\ phase' = "mounted"
  /\ op' = "effect"
  /\ UNCHANGED <<status, now, changes, scenario>>

\* ---- the setTimeout callback (lines 110-118) ----------------------------------
TimerFires ==
  \E t \in timers :
    /\ t.deadline <= now
    /\ timers' = timers \ {t}
    /\ LET currentStatus == CallbackStatus(t, status) IN
         IF RevealsOnFire(currentStatus)
           THEN /\ delayedStatus' = currentStatus
                /\ delayedWritten' = TRUE
                /\ hideCloudConnection' = FALSE
                /\ UNCHANGED connectedSeen
           ELSE /\ connectedSeen' = TRUE
                /\ UNCHANGED <<delayedStatus, hideCloudConnection, delayedWritten>>
    /\ op' = "timer"
    /\ UNCHANGED <<status, phase, connectionStatus, depHide, disconnectionTimerRef,
                   firstDisconnectedTimeRef, now, refreshCount, changes,
                   transitions, cancelledDeadline, scenario>>

\* ---- unmount: the cleanup of the last run (lines 126-131) ---------------------
Unmount ==
  /\ phase = "mounted"
  /\ LET c == ClearPending(disconnectionTimerRef, timers) IN
       /\ disconnectionTimerRef' = c.ref
       /\ timers' = c.timers
  /\ phase' = "unmounted"
  /\ op' = "unmount"
  /\ scenario' = 0
  /\ UNCHANGED <<status, connectionStatus, depHide, hideCloudConnection,
                 delayedStatus, firstDisconnectedTimeRef, now, refreshCount,
                 changes, transitions, connectedSeen, cancelledDeadline,
                 delayedWritten>>

\* ---- environment ----------------------------------------------------------------
\* the connection store publishes a new status
StoreChange ==
  \E s \in WebSocketStatus \ {status} :
    /\ changes < MaxChanges
    /\ status' = s
    /\ changes' = changes + 1
    /\ op' = "store"
    /\ scenario' = ScenarioNext(s)
    /\ UNCHANGED <<phase, connectionStatus, depHide, hideCloudConnection,
                   delayedStatus, disconnectionTimerRef, firstDisconnectedTimeRef,
                   timers, now, refreshCount, transitions, connectedSeen,
                   cancelledDeadline, delayedWritten>>

\* the clock advances while the event loop is idle: no effect to run, no timer
\* due, and not past the deadline of a live timer
Advance ==
  \E d \in Steps :
    /\ ~EffectPending
    /\ ~TimerDue
    /\ now + d <= MaxTime
    /\ \A t \in timers : now + d <= t.deadline
    /\ now' = now + d
    /\ op' = "advance"
    /\ UNCHANGED <<status, phase, connectionStatus, depHide, hideCloudConnection,
                   delayedStatus, disconnectionTimerRef, firstDisconnectedTimeRef,
                   timers, refreshCount, changes, transitions, connectedSeen,
                   cancelledDeadline, delayedWritten, scenario>>

Next ==
  \/ Effect
  \/ TimerFires
  \/ Unmount
  \/ StoreChange
  \/ Advance

Spec == Init /\ [][Next]_vars

\* ---- properties -------------------------------------------------------------------
\* the event loop is idle: everything due at this instant has run
Idle == ~EffectPending /\ ~TimerDue

\* C1: a run of the effect for CONNECTED ends with the indicator hidden
\* (shouldDisplay false), delayedStatus = CONNECTED and no timer pending: the
\* ref is null and the host holds no live timer.
C1_ImmediateHideOnConnect ==
  (op = "effect" /\ connectionStatus = CONNECTED) =>
    /\ hideCloudConnection
    /\ ~shouldDisplay
    /\ delayedStatus = CONNECTED
    /\ disconnectionTimerRef = NoTimer
    /\ timers = {}

\* the effect ran for CONNECTED while a reveal timer was pending
C1_Witness ==
  /\ op = "effect"
  /\ connectionStatus = CONNECTED
  /\ cancelledDeadline # NoTime

\* C2: while less than DISCONNECTION_DELAY has elapsed since the first
\* non-connected observation, the indicator is hidden.
C2_HiddenBeforeDelay ==
  (firstDisconnectedTimeRef # NoTime
     /\ now < firstDisconnectedTimeRef + DISCONNECTION_DELAY) => ~shouldDisplay

\* a later non-connected status was processed inside the delay, and the clock
\* has then reached 4500 ms after the first one
C2_Witness ==
  /\ firstDisconnectedTimeRef # NoTime
  /\ now = firstDisconnectedTimeRef + DISCONNECTION_DELAY - 500
  /\ connectionStatus # CONNECTED
  /\ changes >= 2
  /\ transitions >= 1
  /\ op = "advance"
  /\ ~shouldDisplay

\* C3: once DISCONNECTION_DELAY has elapsed since the first non-connected
\* observation and CONNECTED has not been read since, the indicator is shown
\* as soon as the event loop is idle; and a shown indicator is hidden again
\* only by a run of the effect for CONNECTED.
C3_RevealAtDelay ==
  /\ [](( /\ phase = "mounted"
          /\ Idle
          /\ firstDisconnectedTimeRef # NoTime
          /\ ~connectedSeen
          /\ now >= firstDisconnectedTimeRef + DISCONNECTION_DELAY ) => shouldDisplay)
  /\ [][ (~hideCloudConnection /\ hideCloudConnection')
           => (op' = "effect" /\ connectionStatus' = CONNECTED) ]_vars

\* the timer has fired at the deadline and revealed
C3_Witness ==
  /\ op = "timer"
  /\ shouldDisplay
  /\ firstDisconnectedTimeRef # NoTime
  /\ now = firstDisconnectedTimeRef + DISCONNECTION_DELAY

\* C4: a timer cancelled by a CONNECTED run never reveals: while no
\* disconnection is being timed the indicator is hidden and no timer is live,
\* and every reveal happens DISCONNECTION_DELAY or more after the first
\* non-connected observation of the current period.
C4_RecoveryCancelsReveal ==
  /\ [](firstDisconnectedTimeRef = NoTime => (hideCloudConnection /\ timers = {}))
  /\ [][ (hideCloudConnection /\ ~hideCloudConnection')
           => /\ firstDisconnectedTimeRef' # NoTime
              /\ now' >= firstDisconnectedTimeRef' + DISCONNECTION_DELAY ]_vars

\* CONNECTED was processed while a timer was pending, and the clock has
\* reached that timer's deadline with the indicator still hidden
C4_Witness ==
  /\ connectionStatus = CONNECTED
  /\ cancelledDeadline # NoTime
  /\ now >= cancelledDeadline
  /\ hideCloudConnection

\* C5: the number of refreshApplets() calls equals the number of observed
\* transitions into CONNECTED or DISCONNECTED.
C5_RefreshOncePerTransition == refreshCount = transitions

\* C6: a run of the effect for CONNECTING or ERROR, and the timer callback,
\* leave the number of refreshApplets() calls unchanged.
C6_NoRefreshForConnectingOrError ==
  [][ ( \/ op' = "timer"
        \/ (op' = "effect" /\ connectionStatus' \in {CONNECTING, ERROR}) )
        => refreshCount' = refreshCount ]_vars

\* the effect ran for CONNECTING or ERROR after refreshApplets() had been called
C6_Witness ==
  /\ op = "effect"
  /\ connectionStatus \in {CONNECTING, ERROR}
  /\ refreshCount > 0

\* C7: after several non-connected statuses there is one reveal: a shown
\* indicator has no timer left that could reveal again, the step that reveals
\* displays the live status, and once the event loop is idle the displayed
\* status is the last status observed.
C7_OneRevealWithLastStatus ==
  /\ [](shouldDisplay => timers = {})
  /\ []((shouldDisplay /\ phase = "mounted" /\ Idle) => delayedStatus = connectionStatus)
  /\ [][ (hideCloudConnection /\ ~hideCloudConnection')
           => (delayedStatus' = status' /\ status' # CONNECTED) ]_vars

\* CONNECTED at mount, then three non-connected statuses at time 0 ending in
\* DISCONNECTED, revealed by the timer at 5000
C7_Witness ==
  /\ op = "timer"
  /\ shouldDisplay
  /\ firstDisconnectedTimeRef = 0
  /\ now = DISCONNECTION_DELAY
  /\ changes = 3
  /\ refreshCount = 2
  /\ transitions = 2
  /\ delayedStatus = DISCONNECTED

\* C8: only the effect writes firstDisconnectedTimeRef; a non-connected run
\* sets it to the current time when it is null and leaves it unchanged
\* otherwise, and the timer it arms is due DISCONNECTION_DELAY after it.
C8_RevealDueFromFirstDisconnection ==
  /\ [][ /\ (op' # "effect") => firstDisconnectedTimeRef' = firstDisconnectedTimeRef
         /\ (op' = "effect" /\ connectionStatus' # CONNECTED) =>
              firstDisconnectedTimeRef' =
                (IF firstDisconnectedTimeRef = NoTime THEN now ELSE firstDisconnectedTimeRef)
       ]_vars
  /\ [](\A t \in timers : t.deadline = firstDisconnectedTimeRef + DISCONNECTION_DELAY)

\* a later non-connected run has re-armed the timer for the remaining time
C8_Witness ==
  /\ op = "effect"
  /\ connectionStatus # CONNECTED
  /\ firstDisconnectedTimeRef # NoTime
  /\ now > firstDisconnectedTimeRef
  /\ \E t \in timers : t.deadline - now < DISCONNECTION_DELAY

\* C9: at most one delayed-reveal timer is live.
C9_AtMostOneTimer == Cardinality(timers) <= 1

\* a timer is live after the effect has run at least three times
C9_Witness ==
  /\ op = "effect"
  /\ Cardinality(timers) = 1
  /\ changes >= 2
  /\ disconnectionTimerRef # NoTimer

\* the status most recently observed: the one rendered at mount, then the
\* one the effect last ran with
ObservedStatus == connectionStatus

\* C10 (as claimed): in every state, the mount state included,
\* firstDisconnectedTimeRef is null iff the most recently observed status is
\* CONNECTED.
C10_NullIffConnectedFromMount ==
  (firstDisconnectedTimeRef = NoTime) <=> (ObservedStatus = CONNECTED)

\* C10 (amended): once the effect has run, firstDisconnectedTimeRef is null
\* iff the status the effect last ran with is CONNECTED.
C10_NullIffConnectedAfterFirstRun ==
  phase # "rendered" =>
    ((firstDisconnectedTimeRef = NoTime) <=> (connectionStatus = CONNECTED))

\* the effect has run for a non-connected status and recorded the time
C10_Witness ==
  /\ phase = "mounted"
  /\ connectionStatus # CONNECTED
  /\ firstDisconnectedTimeRef # NoTime
  /\ changes >= 1

\* C11 (as claimed): in every state, a hidden indicator has
\* delayedStatus = CONNECTED.
C11_HiddenImpliesConnected ==
  hideCloudConnection => delayedStatus = CONNECTED

\* C11 (amended): once setDelayedStatus has been called (by a CONNECTED run or
\* by a reveal), a hidden indicator has delayedStatus = CONNECTED; before
\* that, delayedStatus is still the status rendered at mount.
C11_HiddenImpliesConnectedOnceWritten ==
  (hideCloudConnection /\ delayedWritten) => delayedStatus = CONNECTED

\* hidden inside the delay of a disconnection that followed a CONNECTED run
C11_Witness ==
  /\ hideCloudConnection
  /\ delayedWritten
  /\ delayedStatus = CONNECTED
  /\ connectionStatus # CONNECTED
  /\ firstDisconnectedTimeRef # NoTime
  /\ timers # {}

\* C12: when the callback fires while the live status is not CONNECTED, it
\* sets delayedStatus to the live status of the store and reveals.
C12_CallbackShowsLiveStatus ==
  [][ (op' = "timer" /\ status # CONNECTED)
        => (delayedStatus' = status /\ ~hideCloudConnection') ]_vars

\* the callback revealed a live status that differs from the one its effect
\* run had captured
C12_Witness ==
  /\ op = "timer"
  /\ status # CONNECTED
  /\ status # connectionStatus
  /\ delayedStatus = status
  /\ ~hideCloudConnection

\* C13: when the callback fires while the live status is CONNECTED, it leaves
\* delayedStatus, hideCloudConnection and firstDisconnectedTimeRef unchanged,
\* and the indicator stays hidden.
C13_CallbackNoOpWhenConnected ==
  [][ (op' = "timer" /\ status = CONNECTED)
        => /\ delayedStatus' = delayedStatus
           /\ hideCloudConnection' = hideCloudConnection
           /\ firstDisconnectedTimeRef' = firstDisconnectedTimeRef
           /\ hideCloudConnection' ]_vars

\* the callback fired after the store went back to CONNECTED and before the
\* effect ran for it
C13_Witness ==
  /\ op = "timer"
  /\ status = CONNECTED
  /\ connectionStatus # CONNECTED
  /\ hideCloudConnection
  /\ timers = {}

\* C14: disconnectionTimerRef is null whenever no timer is scheduled.
C14_RefNullWhenNoTimer ==
  timers = {} => disconnectionTimerRef = NoTimer

\* the whole scenario has been published on time and processed, and the clock
\* still shows the time of its last status
ScenarioDone ==
  /\ scenario = Len(ScenarioScript) + 1
  /\ ~EffectPending
  /\ now = ScenarioScript[Len(ScenarioScript)].at

C16_TeardownCancelsTimer ==
  /\ [](phase = "unmounted" => timers = {})
  /\ [][ phase = "unmounted"
           => /\ op' # "timer"
              /\ delayedStatus' = delayedStatus
              /\ hideCloudConnection' = hideCloudConnection ]_vars

\* unmounted while the reveal timer was pending, and the clock has since
\* passed that timer's deadline with the indicator still hidden
C16_Witness ==
  /\ phase = "unmounted"
  /\ op = "advance"
  /\ status # CONNECTED
  /\ connectionStatus # CONNECTED
  /\ ~connectedSeen
  /\ firstDisconnectedTimeRef # NoTime
  /\ now >= firstDisconnectedTimeRef + DISCONNECTION_DELAY
  /\ hideCloudConnection

\* C17: an effect run for a non-connected status, DISCONNECTION_DELAY or more
\* after the status left CONNECTED, reveals that status in the same step and
\* schedules no timer; so after every effect run that leaves the indicator
\* shown, delayedStatus is the status just processed.
C17_ImmediateRevealAfterDelay ==
  /\ [][ ( /\ op' = "effect"
           /\ connectionStatus' # CONNECTED
           /\ firstDisconnectedTimeRef # NoTime
           /\ now >= firstDisconnectedTimeRef + DISCONNECTION_DELAY )
           => /\ delayedStatus' = connectionStatus'
              /\ ~hideCloudConnection'
              /\ timers' = {}
              /\ disconnectionTimerRef' = NoTimer ]_vars
  /\ []((op = "effect" /\ ~hideCloudConnection) => delayedStatus = connectionStatus)

\* a status published after the reveal has been shown by the effect run itself
C17_Witness ==
  /\ op = "effect"
  /\ ~hideCloudConnection
  /\ connectionStatus # CONNECTED
  /\ delayedStatus = connectionStatus
  /\ firstDisconnectedTimeRef # NoTime
  /\ now > firstDisconnectedTimeRef + DISCONNECTION_DELAY
  /\ timers = {}

\* C18: a shown indicator never displays CONNECTED.
C18_ShownImpliesNotConnected ==
  ~hideCloudConnection => delayedStatus # CONNECTED

\* the indicator still shows ERROR while the store is already back on
\* CONNECTED and the effect has not run for it yet
C18_Witness ==
  /\ ~hideCloudConnection
  /\ delayedStatus = ERROR
  /\ status = CONNECTED
  /\ connectionStatus = ERROR

\* the effect is about to re-run only because the previous step (the callback
\* or an effect run) changed hideCloudConnection; the status is unchanged
RerunForHide ==
  /\ phase = "mounted"
  /\ op \in {"timer", "effect"}
  /\ status = connectionStatus
  /\ hideCloudConnection # depHide

\* C19: the re-run of the effect caused by a change of hideCloudConnection,
\* with the status unchanged, leaves delayedStatus, hideCloudConnection and
\* firstDisconnectedTimeRef unchanged, leaves no timer scheduled, and is not
\* followed by another re-run.
C19_RerunOnHideChangeIsIdempotent ==
  [][ (RerunForHide /\ op' = "effect")
        => /\ delayedStatus' = delayedStatus
           /\ hideCloudConnection' = hideCloudConnection
           /\ firstDisconnectedTimeRef' = firstDisconnectedTimeRef
           /\ timers' = {}
           /\ disconnectionTimerRef' = NoTimer
           /\ ~EffectPending' ]_vars

\* mounted with DISCONNECTED and never changed: after the timer revealed, the
\* effect has re-run with the status it had already processed
C19_Witness ==
  /\ op = "effect"
  /\ phase = "mounted"
  /\ changes = 0
  /\ transitions = 1
  /\ refreshCount = 2
  /\ ~hideCloudConnection
  /\ ~EffectPending

\* C20: for a component created with a non-connected status, the first effect
\* run records the current time and arms one timer for the full
\* DISCONNECTION_DELAY, leaving the indicator hidden; until setDelayedStatus
\* is first called the indicator stays hidden, and when that first call
\* reveals, DISCONNECTION_DELAY has elapsed since that first run and the live
\* status is not CONNECTED.
C20_MountWhileDisconnected ==
  /\ [][ (phase = "rendered" /\ op' = "effect" /\ connectionStatus' # CONNECTED)
           => /\ firstDisconnectedTimeRef' = now
              /\ hideCloudConnection'
              /\ Cardinality(timers') = 1
              /\ \A t \in timers' : t.deadline = now + DISCONNECTION_DELAY ]_vars
  /\ [](~delayedWritten => hideCloudConnection)
  /\ [][ (~delayedWritten /\ ~hideCloudConnection')
           => /\ now' >= firstDisconnectedTimeRef' + DISCONNECTION_DELAY
              /\ firstDisconnectedTimeRef' # NoTime
              /\ status' # CONNECTED
              /\ delayedStatus' = status' ]_vars

\* created with a non-connected status and revealed by the timer armed by the
\* first effect run
C20_Witness ==
  /\ op = "timer"
  /\ ~hideCloudConnection
  /\ transitions = 0
  /\ changes = 0
  /\ firstDisconnectedTimeRef # NoTime
  /\ now = firstDisconnectedTimeRef + DISCONNECTION_DELAY

====
